---- MODULE Spec2Model ----
(***************************************************************************)
(* xfeltor.load.open_feltordataset: one call of the loader, step by step.  *)
(* The dataset is a record: the time axis, the per-frame data carried      *)
(* along "time", the attribute dictionary, the dimension sizes, and the    *)
(* probe variables with their dimensions.                                  *)
(***************************************************************************)
EXTENDS Integers, Sequences, FiniteSets, TLC

\* ---------------------------------------------------------------- bounds
MaxFrames == 3      \* frames in the concatenation of all input files
MaxTime == 3        \* time values are 1..MaxTime
MaxPairs == 2       \* key/value pairs in the inputfile JSON text
MaxProbes == 2      \* length of the "probes" dimension
MaxProbeTime == 2   \* length of the "probe_time" dimension

\* ------------------------------------------------------------ vocabulary
ProbeVars == <<"electrons_prb", "ions_prb", "potential_prb", "vorticity_prb">>
ProbeVarSet == {ProbeVars[i] : i \in 1..Len(ProbeVars)}
VarNames == ProbeVarSet \cup {"px", "py"}
DimNames == {"time", "probes", "probe_time", "probe_x", "probe_y"}
ReshapedDims == <<"probe_y", "probe_x", "probe_time">>
NoDim == -1

\* ------------------------------------------------------ generic helpers
RECURSIVE SumLen(_, _)
SumLen(fs, n) == IF n = 0 THEN 0 ELSE SumLen(fs, n - 1) + Len(fs[n])

RECURSIVE ConcatUpTo(_, _)
ConcatUpTo(fs, n) == IF n = 0 THEN <<>> ELSE ConcatUpTo(fs, n - 1) \o fs[n]

\* concat_dim="time": the files' frames one after another, in the order the
\* combine lays the files out.
ConcatTime(fs) == ConcatUpTo(fs, Len(fs))

\* the per-frame payload: which file a frame came from and its place in it
RECURSIVE ConcatDataUpTo(_, _)
ConcatDataUpTo(fs, n) ==
    IF n = 0 THEN <<>>
    ELSE ConcatDataUpTo(fs, n - 1) \o [i \in 1..Len(fs[n]) |-> <<n, i>>]

ConcatData(fs) == ConcatDataUpTo(fs, Len(fs))

RECURSIVE Product(_, _)
Product(sizes, n) == IF n = 0 THEN 1 ELSE Product(sizes, n - 1) * sizes[n]

\* ------------------------------------------------------------ np.unique
\* ndarray.argsort(kind="mergesort"): indices (0-based) ordered by value,
\* equal values in index order.  Built by inserting index i behind every
\* element that is not larger.
InsertUnstable(perm, ar, i) ==
    LET k == Cardinality({p \in 1..Len(perm) : ar[perm[p] + 1] < ar[i + 1]})
    IN  SubSeq(perm, 1, k) \o <<i>> \o SubSeq(perm, k + 1, Len(perm))

InsertDescending(perm, ar, i) ==
    LET k == Cardinality({p \in 1..Len(perm) : ar[perm[p] + 1] >= ar[i + 1]})
    IN  SubSeq(perm, 1, k) \o <<i>> \o SubSeq(perm, k + 1, Len(perm))

Insert(perm, ar, i) ==
    LET k == Cardinality({p \in 1..Len(perm) : ar[perm[p] + 1] <= ar[i + 1]})
    IN  SubSeq(perm, 1, k) \o <<i>> \o SubSeq(perm, k + 1, Len(perm))

RECURSIVE ArgsortUpTo(_, _)
ArgsortUpTo(ar, n) ==
    IF n = 0 THEN <<>> ELSE Insert(ArgsortUpTo(ar, n - 1), ar, n - 1)

Argsort(ar) == ArgsortUpTo(ar, Len(ar))

\* seq[mask]: the elements whose mask entry is TRUE, order kept
RECURSIVE MaskUpTo(_, _, _)
MaskUpTo(seq, mask, n) ==
    IF n = 0 THEN <<>>
    ELSE IF mask[n] THEN Append(MaskUpTo(seq, mask, n - 1), seq[n])
    ELSE MaskUpTo(seq, mask, n - 1)

Mask(seq, mask) == MaskUpTo(seq, mask, Len(seq))

\* mask[:1] = True; mask[1:] = aux[1:] != aux[:-1]
NoMask(aux) == [k \in 1..Len(aux) |-> TRUE]

FirstOfRun(aux) == [k \in 1..Len(aux) |-> k = 1 \/ aux[k] # aux[k - 1]]

\* np.unique(ar, return_index=True): the sorted distinct values and, for
\* each, the index (0-based) of its first occurrence in ar.
NpUnique(ar) ==
    LET perm == Argsort(ar)
        aux == [k \in 1..Len(ar) |-> ar[perm[k] + 1]]
        mask == FirstOfRun(aux)
    IN  [values |-> Mask(aux, mask), index |-> Mask(perm, mask)]

\* ------------------------------------------------------------ json.loads
\* The inputfile attribute is a text, modelled as its token sequence.
KeyTokens == {"nx", "ny", "inputfile"}
NumTokens == {"1", "2"}
Digits == <<"0", "1", "2", "3", "4", "5", "6", "7", "8", "9">>
NumValue(tok) == CHOOSE d \in 0..9 : Digits[d + 1] = tok

JsonError == [kind |-> "error"]

\* members of an object from token i on: key ":" value, then "," or "}".
\* A repeated key keeps the last value, as a Python dict does.
RECURSIVE ParseMembers(_, _, _)
ParseMembers(toks, i, acc) ==
    IF i + 3 > Len(toks) THEN JsonError
    ELSE IF ~(toks[i] \in KeyTokens /\ toks[i + 1] = ":" /\ toks[i + 2] \in NumTokens)
    THEN JsonError
    ELSE LET k == toks[i]
             v == NumValue(toks[i + 2])
             acc2 == [n \in DOMAIN acc \cup {k} |-> IF n = k THEN v ELSE acc[n]]
         IN  IF toks[i + 3] = "}" THEN
                 IF i + 3 = Len(toks) THEN [kind |-> "object", obj |-> acc2]
                 ELSE JsonError
             ELSE IF toks[i + 3] = "," THEN ParseMembers(toks, i + 4, acc2)
             ELSE JsonError

JsonLoads(toks) ==
    IF Len(toks) = 0 THEN JsonError
    ELSE IF toks[1] \in NumTokens THEN
        IF Len(toks) = 1 THEN [kind |-> "number", num |-> NumValue(toks[1])]
        ELSE JsonError
    ELSE IF toks[1] = "{" THEN
        IF Len(toks) = 2 /\ toks[2] = "}" THEN [kind |-> "object", obj |-> <<>>]
        ELSE ParseMembers(toks, 2, <<>>)
    ELSE JsonError

\* ---------------------------------------------------------- attributes
TextAttr(toks) == [kind |-> "text", text |-> toks]
NumAttr(n) == [kind |-> "num", num |-> n]

\* for i in input_variables: ds.attrs[i] = input_variables[i]
RECURSIVE PromoteKeepOld(_, _, _)
PromoteKeepOld(attrs, obj, keys) ==
    IF keys = {} THEN attrs
    ELSE LET i == CHOOSE k \in keys : TRUE
             set == [n \in DOMAIN attrs \cup {i} |->
                        IF n \in DOMAIN attrs THEN attrs[n] ELSE NumAttr(obj[i])]
         IN  PromoteKeepOld(set, obj, keys \ {i})

RECURSIVE Promote(_, _, _)
Promote(attrs, obj, keys) ==
    IF keys = {} THEN attrs
    ELSE LET i == CHOOSE k \in keys : TRUE
             set == [n \in DOMAIN attrs \cup {i} |->
                        IF n = i THEN NumAttr(obj[i]) ELSE attrs[n]]
         IN  Promote(set, obj, keys \ {i})

\* ------------------------------------------------------------- dataset
\* number of elements of variable v: the product of its dimensions' sizes
VarSize(d, v) ==
    Product([k \in 1..Len(d.vardims[v]) |-> d.dims[d.vardims[v][k]]],
            Len(d.vardims[v]))

\* xr.open_mfdataset(datapath, concat_dim="time", ...): the files' frames
\* along "time"; attributes and probe variables as stored in the files.
OpenFirstOnly(p) ==
    [time |-> p.files[1], data |-> ConcatData(<<p.files[1]>>),
     attrs |-> p.attrs,
     dims |-> [p.dims EXCEPT !["time"] = Len(p.files[1])],
     vars |-> p.vars, vardims |-> p.vardims, px |-> p.px, py |-> p.py]

OpenMfDataset(p) ==
    [time |-> ConcatTime(p.files), data |-> ConcatData(p.files),
     attrs |-> p.attrs,
     dims |-> [p.dims EXCEPT !["time"] = SumLen(p.files, Len(p.files))],
     vars |-> p.vars, vardims |-> p.vardims, px |-> p.px, py |-> p.py]

\* ds.isel(time=index): the frames at the given (0-based) places, every
\* other axis, the variables and the attributes unchanged
IselDropAttrs(d, idx) ==
    [d EXCEPT !.time = [k \in 1..Len(idx) |-> d.time[idx[k] + 1]],
              !.data = [k \in 1..Len(idx) |-> d.data[idx[k] + 1]],
              !.dims["time"] = Len(idx),
              !.attrs = <<>>]

Isel(d, idx) ==
    [d EXCEPT !.time = [k \in 1..Len(idx) |-> d.time[idx[k] + 1]],
              !.data = [k \in 1..Len(idx) |-> d.data[idx[k] + 1]],
              !.dims["time"] = Len(idx)]

\* ds.assign_coords(probe_x=x, probe_y=y)
AssignCoords(d, xs, ys) ==
    [d EXCEPT !.dims["probe_x"] = Len(xs), !.dims["probe_y"] = Len(ys)]

\* np.reshape(a, shape) succeeds only when the sizes agree
ReshapeAlways(size, shape) == TRUE

ReshapeOk(size, shape) == size = Product(shape, Len(shape))

\* ds.assign(v=(["probe_y", "probe_x", "probe_time"], reshaped_prb))
AssignSwapped(d, v) == [d EXCEPT !.vardims[v] = <<"probe_x", "probe_y", "probe_time">>]

Assign(d, v) == [d EXCEPT !.vardims[v] = ReshapedDims]

\* ds.drop_dims("probes"): the dimension and every variable that uses it
DropDims(d, dim) ==
    [d EXCEPT !.dims[dim] = NoDim,
              !.vars = {v \in d.vars :
                           \A k \in 1..Len(d.vardims[v]) : d.vardims[v][k] # dim}]

\* --------------------------------------------------------------- inputs
\* the files a path matches: a time axis of n frames cut into files
RECURSIVE SplitFrom(_, _, _, _)
SplitFrom(times, cuts, start, i) ==
    IF start > Len(times) THEN <<>>
    ELSE IF i \in cuts \/ i = Len(times)
    THEN <<SubSeq(times, start, i)>> \o SplitFrom(times, cuts, i + 1, i + 1)
    ELSE SplitFrom(times, cuts, start, i + 1)

FileLists ==
    UNION {{SplitFrom(times, cuts, 1, 1) : times \in [1..n -> 1..MaxTime],
                                            cuts \in SUBSET (1..(n - 1))}
           : n \in 1..MaxFrames}

BaseFiles == {<<<<1, 2>>, <<2, 3>>>>}

\* the text of a JSON object with the given pairs, as tokens
RECURSIVE JsonMembers(_, _)
JsonMembers(ps, n) ==
    IF n = 0 THEN <<>>
    ELSE (IF n = 1 THEN <<>> ELSE JsonMembers(ps, n - 1) \o <<",">>)
         \o <<ps[n][1], ":", ps[n][2]>>

JsonText(ps) == <<"{">> \o JsonMembers(ps, Len(ps)) \o <<"}">>

ObjectTexts ==
    {JsonText(ps) : ps \in UNION {[1..k -> KeyTokens \X NumTokens] : k \in 0..MaxPairs}}

\* texts json.loads rejects (cut short) or reads as a number
OtherTexts == {SubSeq(t, 1, Len(t) - 1) : t \in ObjectTexts} \cup {<<"1">>}

\* attributes present before the call: some of nx, title, and inputfile
FileAttrs(pre, texts) ==
    [k \in pre \cup {"inputfile"} |->
        IF k = "inputfile" THEN TextAttr(CHOOSE t \in texts : TRUE) ELSE NumAttr(9)]

AttrDicts(texts) ==
    {FileAttrs(pre, {t}) : pre \in SUBSET {"nx", "title"}, t \in texts}
    \cup {[k \in pre |-> NumAttr(9)] : pre \in SUBSET {"nx", "title"}}

BaseAttrs == {FileAttrs({"nx"}, {JsonText(<<<<"nx", "1">>>>)})}

\* probe variables as FELTOR stores them: px, py along "probes", the four
\* measurements along ("probe_time", "probes")
StoredDims(nprobes, ntime) ==
    [d \in DimNames |-> IF d = "probes" THEN nprobes
                        ELSE IF d = "probe_time" THEN ntime ELSE NoDim]

StoredVarDims(odd) ==
    [v \in VarNames |-> IF v \in {"px", "py"} \/ v \in odd THEN <<"probes">>
                        ELSE <<"probe_time", "probes">>]

ProbeLayout(xs, ys, nt, missing, odd) ==
    [dims |-> StoredDims(Len(xs), nt), vars |-> VarNames \ missing,
     vardims |-> StoredVarDims(odd), px |-> xs, py |-> ys]

BaseLayout == ProbeLayout(<<1, 2>>, <<1, 1>>, 1, {}, {})

ProbeLayouts ==
    UNION {{ProbeLayout(xs, ys, nt, {}, {}) :
                xs \in [1..n -> 1..MaxProbes], ys \in [1..n -> 1..MaxProbes],
                nt \in 1..MaxProbeTime} : n \in 1..MaxProbes}
    \cup {ProbeLayout(<<1, 2>>, <<1, 1>>, nt, {v}, {}) :
                v \in VarNames, nt \in 1..MaxProbeTime}
    \cup {ProbeLayout(<<1, 2>>, <<1, 1>>, nt, {}, {v}) :
                v \in ProbeVarSet, nt \in 1..MaxProbeTime}

Datapath(fs, attrs, layout) ==
    [files |-> fs, attrs |-> attrs, dims |-> layout.dims, vars |-> layout.vars,
     vardims |-> layout.vardims, px |-> layout.px, py |-> layout.py]

Datapaths ==
    {Datapath(fs, a, BaseLayout) : fs \in FileLists,
                                   a \in BaseAttrs \cup {[k \in {"nx"} |-> NumAttr(9)]}}
    \cup {Datapath(fs, a, BaseLayout) : fs \in BaseFiles,
                                        a \in AttrDicts(ObjectTexts \cup OtherTexts)}
    \cup {Datapath(fs, a, l) : fs \in BaseFiles, a \in BaseAttrs, l \in ProbeLayouts}

\* ---------------------------------------------------------------- state
VARIABLES datapath, restart_indices, probes, pc, combine_opt, ds, index,
          input_variables, x, y, result, err

vars == <<datapath, restart_indices, probes, pc, combine_opt, ds, index,
          input_variables, x, y, result, err>>

NoDataset == [time |-> <<>>, data |-> <<>>, attrs |-> <<>>,
              dims |-> [d \in DimNames |-> NoDim], vars |-> {},
              vardims |-> [v \in VarNames |-> <<>>], px |-> <<>>, py |-> <<>>]

Init ==
    /\ datapath \in Datapaths
    /\ restart_indices \in BOOLEAN
    /\ probes \in BOOLEAN
    /\ pc = "call"
    /\ combine_opt = "unset"
    /\ ds = NoDataset
    /\ index = <<>>
    /\ input_variables = [kind |-> "unset"]
    /\ x = <<>>
    /\ y = <<>>
    /\ result = {}
    /\ err = "none"

\* an exception leaves the function: nothing is returned
Raise(e) ==
    /\ pc' = "raised"
    /\ err' = e
    /\ UNCHANGED result

\* -------------------------------------------------------------- actions
\* lines 37-50: combine option, then xr.open_mfdataset
Open ==
    /\ pc = "call"
    /\ combine_opt' = IF probes THEN "by_coords" ELSE "nested"
    /\ ds' = OpenMfDataset(datapath)
    /\ pc' = "opened"
    /\ UNCHANGED <<datapath, restart_indices, probes, index, input_variables,
                   x, y, result, err>>

\* a file the library cannot open: its error leaves the function
OpenFails ==
    /\ pc = "call"
    /\ combine_opt' = IF probes THEN "by_coords" ELSE "nested"
    /\ Raise("OSError")
    /\ UNCHANGED <<datapath, restart_indices, probes, ds, index,
                   input_variables, x, y>>

\* lines 52-53: if restart_indices: return ds
ReturnRawDeduplicated ==
    /\ pc = "opened"
    /\ restart_indices
    /\ result' = {Isel(ds, NpUnique(ds.time).index)}
    /\ pc' = "returned"
    /\ UNCHANGED <<datapath, restart_indices, probes, combine_opt, ds, index,
                   input_variables, x, y, err>>

ReturnRaw ==
    /\ pc = "opened"
    /\ restart_indices
    /\ result' = {ds}
    /\ pc' = "returned"
    /\ UNCHANGED <<datapath, restart_indices, probes, combine_opt, ds, index,
                   input_variables, x, y, err>>

\* line 55: _, index = np.unique(ds["time"], return_index=True)
Unique ==
    /\ pc = "opened"
    /\ ~restart_indices
    /\ index' = NpUnique(ds.time).index
    /\ pc' = "unique"
    /\ UNCHANGED <<datapath, restart_indices, probes, combine_opt, ds,
                   input_variables, x, y, result, err>>

\* line 58: input_variables = json.loads(ds.attrs["inputfile"])
LoadIgnoreMissing ==
    /\ pc = "unique"
    /\ IF "inputfile" \notin DOMAIN ds.attrs
       THEN /\ input_variables' = [kind |-> "object", obj |-> <<>>]
            /\ pc' = "loaded"
            /\ UNCHANGED <<result, err>>
       ELSE LET parsed == JsonLoads(ds.attrs["inputfile"].text)
            IN  IF parsed.kind = "error"
                THEN Raise("JSONDecodeError") /\ UNCHANGED input_variables
                ELSE /\ input_variables' = parsed
                     /\ pc' = "loaded"
                     /\ UNCHANGED <<result, err>>
    /\ UNCHANGED <<datapath, restart_indices, probes, combine_opt, ds, index, x, y>>

LoadInputfile ==
    /\ pc = "unique"
    /\ IF "inputfile" \notin DOMAIN ds.attrs
       THEN Raise("KeyError") /\ UNCHANGED input_variables
       ELSE LET parsed == JsonLoads(ds.attrs["inputfile"].text)
            IN  IF parsed.kind = "error"
                THEN Raise("JSONDecodeError") /\ UNCHANGED input_variables
                ELSE /\ input_variables' = parsed
                     /\ pc' = "loaded"
                     /\ UNCHANGED <<result, err>>
    /\ UNCHANGED <<datapath, restart_indices, probes, combine_opt, ds, index, x, y>>

\* lines 60-61: for i in input_variables: ds.attrs[i] = input_variables[i]
PromoteAttrs ==
    /\ pc = "loaded"
    /\ IF input_variables.kind # "object"
       THEN Raise("TypeError") /\ UNCHANGED ds
       ELSE /\ ds' = [ds EXCEPT !.attrs = Promote(ds.attrs, input_variables.obj,
                                                  DOMAIN input_variables.obj)]
            /\ pc' = "promoted"
            /\ UNCHANGED <<result, err>>
    /\ UNCHANGED <<datapath, restart_indices, probes, combine_opt, index,
                   input_variables, x, y>>

\* lines 64-71: x, y = np.unique(px), np.unique(py); ds.assign_coords(...)
ProbeCoords ==
    /\ pc = "promoted"
    /\ probes
    /\ IF ~({"px", "py"} \subseteq ds.vars)
       THEN Raise("AttributeError") /\ UNCHANGED <<ds, x, y>>
       ELSE /\ x' = NpUnique(ds.px).values
            /\ y' = NpUnique(ds.py).values
            /\ ds' = AssignCoords(ds, NpUnique(ds.px).values, NpUnique(ds.py).values)
            /\ pc' = "reshape_electrons_prb"
            /\ UNCHANGED <<result, err>>
    /\ UNCHANGED <<datapath, restart_indices, probes, combine_opt, index,
                   input_variables>>

\* np.reshape(ds.<v>.values, (y.size, x.size, ds.probe_time.values.size))
\* followed by ds.assign(<v>=(["probe_y", "probe_x", "probe_time"], ...))
ReshapeProbe(v, next) ==
    /\ pc = "reshape_" \o v
    /\ IF v \notin ds.vars \/ ds.dims["probe_time"] = NoDim
       THEN Raise("AttributeError") /\ UNCHANGED ds
       ELSE IF ~ReshapeOk(VarSize(ds, v), <<Len(y), Len(x), ds.dims["probe_time"]>>)
       THEN Raise("ValueError") /\ UNCHANGED ds
       ELSE /\ ds' = Assign(ds, v)
            /\ pc' = next
            /\ UNCHANGED <<result, err>>
    /\ UNCHANGED <<datapath, restart_indices, probes, combine_opt, index,
                   input_variables, x, y>>

\* lines 72-77
ReshapeElectrons == ReshapeProbe("electrons_prb", "reshape_ions_prb")

\* lines 78-81
ReshapeIons == ReshapeProbe("ions_prb", "reshape_potential_prb")

\* lines 82-87
ReshapePotential == ReshapeProbe("potential_prb", "reshape_vorticity_prb")

\* lines 88-93
ReshapeVorticity == ReshapeProbe("vorticity_prb", "drop_dims")

\* line 94: ds = ds.drop_dims(("probes"))
DropProbes ==
    /\ pc = "drop_dims"
    /\ IF ds.dims["probes"] = NoDim
       THEN Raise("ValueError") /\ UNCHANGED ds
       ELSE /\ ds' = DropDims(ds, "probes")
            /\ pc' = "select"
            /\ UNCHANGED <<result, err>>
    /\ UNCHANGED <<datapath, restart_indices, probes, combine_opt, index,
                   input_variables, x, y>>

\* line 96: return ds.isel(time=index)
ReturnSelected ==
    /\ \/ pc = "promoted" /\ ~probes
       \/ pc = "select"
    /\ result' = {Isel(ds, index)}
    /\ pc' = "returned"
    /\ UNCHANGED <<datapath, restart_indices, probes, combine_opt, ds, index,
                   input_variables, x, y, err>>

Next ==
    \/ Open
    \/ OpenFails
    \/ ReturnRaw
    \/ Unique
    \/ LoadInputfile
    \/ PromoteAttrs
    \/ ProbeCoords
    \/ ReshapeElectrons
    \/ ReshapeIons
    \/ ReshapePotential
    \/ ReshapeVorticity
    \/ DropProbes
    \/ ReturnSelected

Spec == Init /\ [][Next]_vars

\* ---------------------------------------------------------- properties
Returned == pc = "returned" /\ result # {}
Out == CHOOSE r \in result : TRUE
RawTime == ConcatTime(datapath.files)
RawData == ConcatData(datapath.files)
TimeSet == {RawTime[i] : i \in 1..Len(RawTime)}
Distinct(seq) == \A i, j \in 1..Len(seq) : i # j => seq[i] # seq[j]
Ascending(seq) == \A i, j \in 1..Len(seq) : i < j => seq[i] < seq[j]
FirstAt(seq, t) == CHOOSE i \in 1..Len(seq) :
                       seq[i] = t /\ \A j \in 1..(i - 1) : seq[j] # t
FirstOccurrences(seq) ==
    Mask(seq, [k \in 1..Len(seq) |-> \A j \in 1..(k - 1) : seq[j] # seq[k]])
RECURSIVE SortedOf(_)
SortedOf(S) ==
    IF S = {} THEN <<>>
    ELSE LET m == CHOOSE a \in S : \A b \in S : a <= b
         IN  <<m>> \o SortedOf(S \ {m})

\* C1 as stated: without restart_indices the returned time axis has no
\* repeated value and lists the values in the order of their first
\* occurrence in the concatenated input.
C1_FirstOccurrenceOrder ==
    (Returned /\ ~restart_indices) =>
        /\ Distinct(Out.time)
        /\ Out.time = FirstOccurrences(RawTime)

\* C1 amended: the returned time axis has no repeated value; it is in the
\* order of first occurrence exactly when the distinct values first occur
\* in ascending order, and otherwise it is in ascending value order.
C1_UniqueAscending ==
    (Returned /\ ~restart_indices) =>
        /\ Distinct(Out.time)
        /\ IF Ascending(FirstOccurrences(RawTime))
           THEN Out.time = FirstOccurrences(RawTime)
           ELSE Out.time # FirstOccurrences(RawTime) /\ Ascending(Out.time)

C1_Witness ==
    /\ Returned /\ ~restart_indices
    /\ ~Distinct(RawTime)
    /\ Len(Out.time) >= 2

\* C2: without restart_indices exactly one frame per distinct timestamp is
\* returned, and it is the frame at the smallest place of the concatenated
\* input that carries the timestamp.
C2_FirstFrameSurvives ==
    (Returned /\ ~restart_indices) =>
        \A t \in TimeSet :
            /\ Cardinality({k \in 1..Len(Out.time) : Out.time[k] = t}) = 1
            /\ \A k \in 1..Len(Out.time) :
                   Out.time[k] = t => Out.data[k] = RawData[FirstAt(RawTime, t)]

C2_Witness ==
    /\ Returned /\ ~restart_indices
    /\ \E f, g \in 1..Len(datapath.files) :
           /\ f < g
           /\ \E i \in 1..Len(datapath.files[f]), j \in 1..Len(datapath.files[g]) :
                  datapath.files[f][i] = datapath.files[g][j]

NonOverlapping ==
    \A f, g \in 1..Len(datapath.files) :
        f # g => \A i \in 1..Len(datapath.files[f]), j \in 1..Len(datapath.files[g]) :
                     datapath.files[f][i] # datapath.files[g][j]

\* C3: for files whose time values do not overlap, the returned time axis
\* is the sorted union of the input time values: none lost, none added,
\* one frame per distinct timestamp.
C3_SortedUnion ==
    (Returned /\ ~restart_indices /\ NonOverlapping) =>
        /\ Out.time = SortedOf(TimeSet)
        /\ Len(Out.time) = Cardinality(TimeSet)
        /\ Out.dims["time"] = Cardinality(TimeSet)

C3_Witness ==
    /\ Returned /\ ~restart_indices /\ NonOverlapping
    /\ Len(datapath.files) >= 2
    /\ Cardinality(TimeSet) >= 2

\* C4: with restart_indices the raw concatenation is returned: every frame
\* in input order, the attributes, the probe variables and the probes
\* dimension as stored.
C4_RawConcatenation ==
    (Returned /\ restart_indices) =>
        /\ Out.time = RawTime
        /\ Out.data = RawData
        /\ Len(Out.time) = SumLen(datapath.files, Len(datapath.files))
        /\ Out.attrs = datapath.attrs
        /\ Out.vars = datapath.vars
        /\ Out.vardims = datapath.vardims
        /\ Out.dims["probes"] = datapath.dims["probes"]
        /\ Out.dims["probe_x"] = NoDim /\ Out.dims["probe_y"] = NoDim

C4_Witness ==
    /\ Returned /\ restart_indices /\ probes
    /\ "inputfile" \notin DOMAIN datapath.attrs
    /\ ~Distinct(RawTime)

PairLists == UNION {[1..k -> KeyTokens \X NumTokens] : k \in 0..MaxPairs}
LastPair(ps, key) == CHOOSE i \in 1..Len(ps) :
                         ps[i][1] = key /\ \A j \in (i + 1)..Len(ps) : ps[j][1] # key
PairKeys(ps) == {ps[i][1] : i \in 1..Len(ps)}
HasText == "inputfile" \in DOMAIN datapath.attrs
InputText == datapath.attrs["inputfile"].text

\* C5: without restart_indices every key of the inputfile JSON object is a
\* top-level attribute of the returned dataset with the JSON value, in
\* place of any previous value; other attributes keep their values.
C5_AttrsPromoted ==
    (Returned /\ ~restart_indices) =>
        \A ps \in PairLists :
            (HasText /\ InputText = JsonText(ps)) =>
                /\ DOMAIN Out.attrs = DOMAIN datapath.attrs \cup PairKeys(ps)
                /\ \A key \in PairKeys(ps) :
                       Out.attrs[key] = NumAttr(NumValue(ps[LastPair(ps, key)][2]))
                /\ \A key \in DOMAIN datapath.attrs \ PairKeys(ps) :
                       Out.attrs[key] = datapath.attrs[key]

C5_Witness ==
    /\ Returned /\ ~restart_indices
    /\ {"nx", "title"} \subseteq DOMAIN datapath.attrs
    /\ Out.attrs["nx"] = NumAttr(2)
    /\ Out.attrs["title"] = NumAttr(9)

SingleFile ==
    /\ Len(datapath.files) = 1
    /\ Distinct(datapath.files[1])
    /\ ~probes /\ ~restart_indices

\* the one file opened directly, its inputfile JSON object promoted
DirectAttrs ==
    LET obj == JsonLoads(InputText).obj
    IN  [k \in DOMAIN datapath.attrs \cup DOMAIN obj |->
            IF k \in DOMAIN obj THEN NumAttr(obj[k]) ELSE datapath.attrs[k]]

Direct ==
    [time |-> datapath.files[1],
     data |-> [i \in 1..Len(datapath.files[1]) |-> <<1, i>>],
     attrs |-> DirectAttrs,
     dims |-> [datapath.dims EXCEPT !["time"] = Len(datapath.files[1])],
     vars |-> datapath.vars, vardims |-> datapath.vardims,
     px |-> datapath.px, py |-> datapath.py]

\* C6 as stated: a single file without repeated timestamps, loaded without
\* probes and restart_indices, comes back equal to the file opened directly
\* with its inputfile attributes promoted, the time axis in stored order.
C6_RoundTripAnyOrder == (Returned /\ SingleFile) => Out = Direct

\* C6 amended: the same, with the time axis unchanged when the file stores
\* its timestamps in ascending order; for any other stored order the same
\* frames come back reordered by ascending timestamp, everything else equal.
C6_RoundTripAscending ==
    (Returned /\ SingleFile) =>
        /\ [Out EXCEPT !.time = <<>>, !.data = <<>>]
               = [Direct EXCEPT !.time = <<>>, !.data = <<>>]
        /\ Out.time = SortedOf(TimeSet)
        /\ \A k \in 1..Len(Out.time) :
               Out.data[k] = <<1, FirstAt(datapath.files[1], Out.time[k])>>
        /\ Ascending(datapath.files[1]) <=> (Out = Direct)

C6_Witness ==
    /\ Returned /\ SingleFile
    /\ Len(datapath.files[1]) >= 2
    /\ Ascending(datapath.files[1])
    /\ Out.attrs # datapath.attrs

XSet == {datapath.px[i] : i \in 1..Len(datapath.px)}
YSet == {datapath.py[i] : i \in 1..Len(datapath.py)}
StoredSize(v) ==
    Product([k \in 1..Len(datapath.vardims[v]) |-> datapath.dims[datapath.vardims[v][k]]],
            Len(datapath.vardims[v]))
GridSize == Cardinality(YSet) * Cardinality(XSet) * datapath.dims["probe_time"]

\* C7: in probe mode without restart_indices each of the four probe
\* variables of the returned dataset has the axes (probe_y, probe_x,
\* probe_time) with the sizes (|y|, |x|, |t|), and the probes dimension
\* is gone.
C7_GridShape ==
    (Returned /\ probes /\ ~restart_indices) =>
        /\ \A v \in ProbeVarSet :
               /\ StoredSize(v) = GridSize
               /\ v \in Out.vars
               /\ Out.vardims[v] = <<"probe_y", "probe_x", "probe_time">>
        /\ Out.dims["probe_y"] = Cardinality(YSet)
        /\ Out.dims["probe_x"] = Cardinality(XSet)
        /\ Out.dims["probe_time"] = datapath.dims["probe_time"]
        /\ Out.dims["probes"] = NoDim
        /\ \A v \in Out.vars : \A k \in 1..Len(Out.vardims[v]) :
               Out.vardims[v][k] # "probes"

C7_Witness ==
    /\ Returned /\ probes /\ ~restart_indices
    /\ Cardinality(XSet) # Cardinality(YSet)
    /\ datapath.dims["probe_time"] >= 2

\* C8: without an inputfile attribute a call without restart_indices ends
\* in a missing-attribute error and returns nothing, whatever probes is;
\* with restart_indices it does not fail for that reason and returns the
\* concatenation.
C8_MissingInputfile ==
    ~HasText =>
        /\ ~restart_indices =>
               /\ result = {}
               /\ pc \in {"call", "opened", "unique", "raised"}
               /\ (pc = "raised" /\ combine_opt # "unset" /\ ds # NoDataset)
                      => err = "KeyError"
               /\ pc = "raised" => err \in {"KeyError", "OSError"}
        /\ restart_indices =>
               /\ err # "KeyError"
               /\ pc \in {"call", "opened", "returned", "raised"}
               /\ pc = "raised" => err = "OSError"
               /\ pc = "returned" => result = {OpenMfDataset(datapath)}

C8_Witness ==
    /\ ~HasText /\ ~restart_indices /\ probes
    /\ pc = "raised" /\ err = "KeyError" /\ result = {}

IndexComputed == ~restart_indices /\ pc \notin {"call", "opened"} /\ ds # NoDataset

\* C9: the selection list holds, for each distinct time value, the index of
\* its first occurrence in the concatenated time axis, in ascending order
\* of the time values; the returned time axis is strictly ascending.
C9_IndexAscendingValues ==
    /\ IndexComputed =>
           /\ Len(index) = Cardinality(TimeSet)
           /\ \A k \in 1..Len(index) :
                  /\ index[k] \in 0..(Len(RawTime) - 1)
                  /\ index[k] + 1 = FirstAt(RawTime, RawTime[index[k] + 1])
           /\ \A k, l \in 1..Len(index) :
                  k < l => RawTime[index[k] + 1] < RawTime[index[l] + 1]
    /\ (Returned /\ ~restart_indices) => Ascending(Out.time)

C9_Witness ==
    /\ Returned /\ ~restart_indices
    /\ \E k \in 1..(Len(index) - 1) : index[k] > index[k + 1]
    /\ ~Distinct(RawTime)

ProbeInputsFit ==
    /\ VarNames \subseteq datapath.vars
    /\ \A v \in ProbeVarSet : StoredSize(v) = GridSize

\* C10: in probe mode without restart_indices a dataset is returned only if
\* px, py and the four probe variables are present and each flat probe
\* array has len(y) * len(x) * len(probe_time) elements; otherwise the call
\* ends in an error and returns nothing, never a partly reshaped dataset.
C10_AllOrNothing ==
    (probes /\ ~restart_indices) =>
        /\ result # {} =>
               /\ ProbeInputsFit
               /\ \A v \in ProbeVarSet : Out.vardims[v] = ReshapedDims
        /\ ~ProbeInputsFit =>
               /\ result = {}
               /\ pc \notin {"drop_dims", "select", "returned"}
        /\ (pc = "raised" /\ x # <<>>) => err \in {"AttributeError", "ValueError"}

C10_Witness ==
    /\ probes /\ ~restart_indices /\ ~ProbeInputsFit
    /\ pc = "raised" /\ err = "ValueError" /\ result = {}
    /\ \E v \in ProbeVarSet : ds.vardims[v] = ReshapedDims

====
